---- MODULE Spec2Model ----
(***************************************************************************)
(* Pool / Limiter engine of the transmuter simulation                      *)
(* (simulation/simulation/pool.py, simulation/simulation/limiters.py).     *)
(*                                                                         *)
(* Numbers are exact: a balance is an integer number of units, a weight,   *)
(* a limit, an offset and a window sample are exact quotients <<n, d>>     *)
(* with d > 0.  Rounding of Python floats is not part of the model.        *)
(* A Python dict is a function together with its key order; a raised      *)
(* exception is an outcome of the call ("KeyError", "ZeroDivisionError")   *)
(* that leaves the object as it was at the raising statement.              *)
(*                                                                         *)
(* The rebalancing incentive calculator (simulation/rebalance_incentive.py)*)
(* is project_point plus the fee and distribution rules of its design      *)
(* notes; k is a natural number here.                                      *)
(***************************************************************************)
EXTENDS Integers, Sequences, FiniteSets, TLC

VARIABLES assets, limiters, last, lim, lcall, calc, incentive_pool

vars == <<assets, limiters, last, lim, lcall, calc, incentive_pool>>

\* ---------------------------------------------------------------- bounds
MaxBal == 2      \* largest absolute balance explored
MaxAmt == 2      \* largest amount passed to join_pool / exit_pool / swap
MaxCalls == 3    \* number of update calls on the stand-alone limiter
MaxWindow == 2   \* largest configured window_length of the stand-alone limiter

\* ------------------------------------------------------- exact quotients
Rat(n, d) == IF d < 0 THEN <<-n, -d>> ELSE <<n, d>>
RatAdd(a, b) == <<a[1] * b[2] + b[1] * a[2], a[2] * b[2]>>
RatGT(a, b) == a[1] * b[2] > b[1] * a[2]
RatEq(a, b) == a[1] * b[2] = b[1] * a[2]
RatLE(a, b) == a[1] * b[2] <= b[1] * a[2]

\* ---------------------------------------------------------------- limiters
\* A limiter object; the fields a class does not have stay at their default.
StaticLimiter(upper_limit) ==
    [kind |-> "StaticLimiter", upper_limit |-> upper_limit, offset |-> <<0, 1>>,
     window_length |-> 0, window |-> <<>>]

ChangeLimiter(offset, window_length) ==
    [kind |-> "ChangeLimiter", upper_limit |-> <<0, 1>>, offset |-> offset,
     window_length |-> window_length, window |-> <<>>]

\* return value >= self.upper_limit
StaticLimiter_surpassed_limit_ge(l, timestamp, value) ==
    IF RatGT(l.upper_limit, value) THEN "False" ELSE "True"

StaticLimiter_surpassed_limit(l, timestamp, value) ==
    IF RatGT(value, l.upper_limit) THEN "True" ELSE "False"

\* s[-n:] of Python
SliceLast(s, n) ==
    IF n = 0 THEN s
    ELSE IF n >= Len(s) THEN s
    ELSE SubSeq(s, Len(s) - n + 1, Len(s))

ChangeLimiter_update(l, timestamp, value) ==
    [l EXCEPT !.window = SliceLast(Append(l.window, <<timestamp, value>>),
                                   l.window_length)]

RECURSIVE TwmaSum(_, _)
TwmaSum(w, i) ==
    IF i >= Len(w) THEN <<0, 1>>
    ELSE RatAdd(<<(w[i + 1][1] - w[i][1]) * w[i][2][1], w[i][2][2]>>,
                TwmaSum(w, i + 1))

\* surpassed_limit without the early return on an empty window: the average
\* of no samples taken as 0
ChangeLimiter_surpassed_limit_no_empty_check(l, timestamp, value) ==
    IF Len(l.window) = 0
    THEN (IF RatGT(value, l.offset) THEN "True" ELSE "False")
    ELSE IF timestamp - l.window[1][1] = 0 THEN "ZeroDivisionError"
    ELSE LET s == TwmaSum(l.window, 1)
             twma == Rat(s[1], s[2] * (timestamp - l.window[1][1]))
         IN IF RatGT(value, RatAdd(twma, l.offset)) THEN "True" ELSE "False"

ChangeLimiter_surpassed_limit(l, timestamp, value) ==
    IF Len(l.window) = 0 THEN "False"
    ELSE IF timestamp - l.window[1][1] = 0 THEN "ZeroDivisionError"
    ELSE LET s == TwmaSum(l.window, 1)
             twma == Rat(s[1], s[2] * (timestamp - l.window[1][1]))
         IN IF RatGT(value, RatAdd(twma, l.offset)) THEN "True" ELSE "False"

Limiter_surpassed_limit(l, timestamp, value) ==
    IF l.kind = "StaticLimiter" THEN StaticLimiter_surpassed_limit(l, timestamp, value)
    ELSE ChangeLimiter_surpassed_limit(l, timestamp, value)

\* -------------------------------------------------------------------- pool
\* Insertion order of the keys of Pool.assets: the constructor's list, then
\* the denom the control panel adds.
DenomOrder == <<"denom1", "denom2", "denom3">>
Denoms == {DenomOrder[i] : i \in 1..Len(DenomOrder)}

Pool(ds) == [assets |-> [d \in ds |-> 0], limiters |-> [d \in ds |-> <<>>]]

denoms(a) == SelectSeq(DenomOrder, LAMBDA d : d \in DOMAIN a)

RECURSIVE SumSeq(_, _)
SumSeq(a, ds) == IF ds = <<>> THEN 0 ELSE a[Head(ds)] + SumSeq(a, Tail(ds))

total_assets(a) == SumSeq(a, denoms(a))

\* weight with return 1 for the empty pool
weight_empty_one(a, denom) ==
    IF total_assets(a) = 0 THEN <<1, 1>>
    ELSE Rat(a[denom], total_assets(a))

weight(a, denom) ==
    IF total_assets(a) = 0 THEN <<0, 1>>
    ELSE Rat(a[denom], total_assets(a))

\* the inner loop of Pool.surpassed_limit over the limiters of one denom
RECURSIVE LimitersOf(_, _, _, _)
LimitersOf(ls, i, timestamp, value) ==
    IF i > Len(ls) THEN "False"
    ELSE LET r == Limiter_surpassed_limit(ls[i], timestamp, value)
         IN IF r = "False" THEN LimitersOf(ls, i + 1, timestamp, value) ELSE r

\* the outer loop of Pool.surpassed_limit over the denoms
RECURSIVE SurpassedFrom(_, _, _, _)
SurpassedFrom(ds, a, lims, timestamp) ==
    IF ds = <<>> THEN "False"
    ELSE IF Head(ds) \notin DOMAIN lims THEN "KeyError"
    ELSE LET r == LimitersOf(lims[Head(ds)], 1, timestamp, weight(a, Head(ds)))
         IN IF r = "False" THEN SurpassedFrom(Tail(ds), a, lims, timestamp) ELSE r

Pool_surpassed_limit(a, lims, timestamp) ==
    SurpassedFrom(denoms(a), a, lims, timestamp)

\* An amount dict is the sequence of its <<denom, amount>> items.
\* for denom in amount.keys(): self.assets[denom] += amount[denom]
RECURSIVE join_apply(_, _)
join_apply(a, amount) ==
    IF amount = <<>> THEN [assets |-> a, err |-> FALSE]
    ELSE IF Head(amount)[1] \notin DOMAIN a THEN [assets |-> a, err |-> TRUE]
    ELSE join_apply([a EXCEPT ![Head(amount)[1]] = @ + Head(amount)[2]],
                    Tail(amount))

\* for denom in amount.keys(): self.assets[denom] -= amount[denom]
RECURSIVE join_revert(_, _)
join_revert(a, amount) ==
    IF amount = <<>> THEN a
    ELSE join_revert([a EXCEPT ![Head(amount)[1]] = @ - Head(amount)[2]],
                     Tail(amount))

\* the clamping loop of exit_pool; amount is the clamped copy built so far
RECURSIVE exit_loop(_, _, _)
exit_loop(a, todo, amount) ==
    IF todo = <<>> THEN [assets |-> a, amount |-> amount, err |-> FALSE]
    ELSE IF Head(todo)[1] \notin DOMAIN a
         THEN [assets |-> a, amount |-> amount, err |-> TRUE]
    ELSE LET denom == Head(todo)[1]
             amt == IF a[denom] < Head(todo)[2] THEN a[denom] ELSE Head(todo)[2]
         IN exit_loop([a EXCEPT ![denom] = @ - amt], Tail(todo),
                      Append(amount, <<denom, amt>>))

\* exit_pool without amount[denom] = self.assets[denom]: the balances are
\* clamped, the amounts handed to the rollback are not
exit_apply_unclamped(a, amount) ==
    [exit_loop(a, amount, <<>>) EXCEPT !.amount = amount]

exit_apply(a, amount) == exit_loop(a, amount, <<>>)

\* for denom in amount.keys(): self.assets[denom] += amount[denom]
exit_revert(a, amount) == join_apply(a, amount).assets

\* swap without self.assets[denom_out] -= amount
swap_apply_no_debit(a, denom_in, denom_out, amount) ==
    IF denom_in \notin DOMAIN a THEN [assets |-> a, err |-> TRUE]
    ELSE LET a1 == [a EXCEPT ![denom_in] = @ + amount]
         IN IF denom_out \notin DOMAIN a THEN [assets |-> a1, err |-> TRUE]
            ELSE [assets |-> a1, err |-> FALSE]

swap_apply(a, denom_in, denom_out, amount) ==
    IF denom_in \notin DOMAIN a THEN [assets |-> a, err |-> TRUE]
    ELSE LET a1 == [a EXCEPT ![denom_in] = @ + amount]
         IN IF denom_out \notin DOMAIN a THEN [assets |-> a1, err |-> TRUE]
            ELSE [assets |-> [a1 EXCEPT ![denom_out] = @ - amount], err |-> FALSE]

swap_revert(a, denom_in, denom_out, amount) ==
    [[a EXCEPT ![denom_in] = @ - amount] EXCEPT ![denom_out] = @ + amount]

\* ------------------------------------------------------------------ inputs
Amounts == 1..MaxAmt

\* the amount dicts a caller passes, in key order: one key, or two distinct
\* keys with the same amount ({denom: amount for denom in sample})
AmountDicts ==
    {<<<<d, x>>>> : d \in Denoms, x \in Amounts}
    \cup {<<<<p[1], p[2]>>, <<p[3], p[2]>>>> :
            p \in {q \in Denoms \X Amounts \X Denoms : q[1] # q[3]}}

\* the limiter objects a caller builds, fresh from their constructors, and
\* the lists passed to set_limiters ([ChangeLimiter(..), StaticLimiter(..)]
\* is the shape init_state configures)
LimS == StaticLimiter(<<1, 2>>)
LimCf == ChangeLimiter(<<1, 4>>, 2)

LimiterLists ==
    {<<>>, <<LimCf, LimS>>}

InBounds(a) == \A d \in DOMAIN a : a[d] >= -MaxBal /\ a[d] <= MaxBal

\* The pool only hands the timestamp on to its limiters, and a limiter with
\* an empty window never reads it: one timestamp stands for all.
Timestamps == {1}

\* What is kept of the latest call: the method, its outcome, and whether
\* exit_pool clamped a requested amount.
NoCall == [op |-> "init", ret |-> "None", clamped |-> FALSE]

\* outcome of a mutator from the outcome of its limit check
Outcome(err, sl) ==
    IF err THEN "KeyError"
    ELSE IF sl = "True" THEN "False"
    ELSE IF sl = "False" THEN "True"
    ELSE sl

\* if self.assets[denom] < amount[denom] held for some key of the loop
Clamped(requested, amount) ==
    \E i \in 1..Len(amount) : amount[i][2] # requested[i][2]

\* ----------------------------------------------------------------- actions
join_pool(timestamp, amount) ==
    LET ap == join_apply(assets, amount)
        sl == IF ap.err THEN "None"
              ELSE Pool_surpassed_limit(ap.assets, limiters, timestamp)
        ret == Outcome(ap.err, sl)
    IN /\ InBounds(ap.assets)
       /\ assets' = IF ret = "False" THEN join_revert(ap.assets, amount)
                    ELSE ap.assets
       /\ last' = [op |-> "join_pool", ret |-> ret, clamped |-> FALSE]
       /\ UNCHANGED <<limiters, lim, lcall, calc, incentive_pool>>

exit_pool(timestamp, amount) ==
    LET ap == exit_apply(assets, amount)
        sl == IF ap.err THEN "None"
              ELSE Pool_surpassed_limit(ap.assets, limiters, timestamp)
        ret == Outcome(ap.err, sl)
    IN /\ InBounds(ap.assets)
       /\ assets' = IF ret = "False" THEN exit_revert(ap.assets, ap.amount)
                    ELSE ap.assets
       /\ last' = [op |-> "exit_pool", ret |-> ret, clamped |-> Clamped(amount, ap.amount)]
       /\ UNCHANGED <<limiters, lim, lcall, calc, incentive_pool>>

\* Pool.swap on balances a and limiter lists lims: the balances the limits
\* are evaluated on, the outcome, and the balances the call leaves
swap_result(a, lims, denom_in, denom_out, timestamp, amount) ==
    LET ap == swap_apply(a, denom_in, denom_out, amount)
        sl == IF ap.err THEN "None"
              ELSE Pool_surpassed_limit(ap.assets, lims, timestamp)
        ret == Outcome(ap.err, sl)
    IN [tentative |-> ap.assets,
        ret |-> ret,
        assets |-> IF ret = "False"
                   THEN swap_revert(ap.assets, denom_in, denom_out, amount)
                   ELSE ap.assets]

swap(denom_in, denom_out, timestamp, amount) ==
    LET r == swap_result(assets, limiters, denom_in, denom_out, timestamp, amount)
    IN /\ InBounds(r.tentative)
       /\ assets' = r.assets
       /\ last' = [op |-> "swap", ret |-> r.ret, clamped |-> FALSE]
       /\ UNCHANGED <<limiters, lim, lcall, calc, incentive_pool>>

\* set_limiters without the membership test
set_limiters_no_check(denom, ls) ==
    /\ limiters' = [d \in DOMAIN limiters \cup {denom} |->
                        IF d = denom THEN ls ELSE limiters[d]]
    /\ last' = [op |-> "set_limiters", ret |-> "None", clamped |-> FALSE]
    /\ UNCHANGED <<assets, lim, lcall, calc, incentive_pool>>

set_limiters(denom, ls) ==
    /\ limiters' = IF denom \notin DOMAIN assets THEN limiters
                   ELSE [d \in DOMAIN limiters \cup {denom} |->
                            IF d = denom THEN ls ELSE limiters[d]]
    /\ last' = [op |-> "set_limiters",
                ret |-> IF denom \notin DOMAIN assets THEN "ValueError" ELSE "None", clamped |-> FALSE]
    /\ UNCHANGED <<assets, lim, lcall, calc, incentive_pool>>

add_new_denom(denom) ==
    /\ assets' = [d \in DOMAIN assets \cup {denom} |->
                     IF d = denom THEN 0 ELSE assets[d]]
    /\ last' = [op |-> "add_new_denom", ret |-> "None", clamped |-> FALSE]
    /\ UNCHANGED <<limiters, lim, lcall, calc, incentive_pool>>

\* ------------------------------------------------------------ pool machine
\* What is kept of the latest call on the stand-alone ChangeLimiter: the
\* method, its arguments, its outcome, and every sample passed to update.
NoLimiterCall == [op |-> "init", ts |-> 0, value |-> <<0, 1>>, fed |-> <<>>,
                  ret |-> "None"]

\* No function of the incentive calculator has been evaluated.
NoCalc == [op |-> "init"]

\* The assets of the incentive pool, in identifier order, and the pool
\* before any fee was collected.
IncentiveAssets == <<"A", "B", "C">>
EmptyIncentivePool == [a \in {IncentiveAssets[i] : i \in 1..Len(IncentiveAssets)} |-> 0]

Init ==
    /\ assets = Pool({"denom1", "denom2"}).assets
    /\ limiters = Pool({"denom1", "denom2"}).limiters
    /\ last = NoCall
    /\ lim = LimCf
    /\ lcall = NoLimiterCall
    /\ calc = NoCalc
    /\ incentive_pool = EmptyIncentivePool

JoinStep == \E t \in Timestamps, am \in AmountDicts : join_pool(t, am)
ExitStep == \E t \in Timestamps, am \in AmountDicts : exit_pool(t, am)
SwapStep == \E t \in Timestamps, di \in Denoms, do \in Denoms, x \in Amounts :
                swap(di, do, t, x)
SetLimitersStep == \E d \in Denoms, ls \in LimiterLists : set_limiters(d, ls)
AddDenomStep == \E d \in Denoms : add_new_denom(d)

Next == JoinStep \/ ExitStep \/ SwapStep \/ SetLimitersStep \/ AddDenomStep

Spec == Init /\ [][Next]_vars

\* ------------------------------------------ pool with ChangeLimiters only
\* The pool machine with set_limiters called with a fresh ChangeLimiter only.
SetChangeLimitersStep == \E d \in Denoms : set_limiters(d, <<LimCf>>)

NextInert ==
    JoinStep \/ ExitStep \/ SwapStep \/ SetChangeLimitersStep \/ AddDenomStep

SpecInert == Init /\ [][NextInert]_vars

\* ------------------------------------------------------ simulation driver
\* The pool machine with join_pool, exit_pool and swap called the way
\* Simulation.run calls them.
DriverAmounts == 0..MaxAmt

\* random.sample(denoms, count) for every count >= 1: the registered denoms
\* taken without repetition, in any order
Samples(a) ==
    {p \in UNION {[1..n -> DOMAIN a] : n \in 1..Cardinality(DOMAIN a)} :
        \A i \in DOMAIN p, j \in DOMAIN p : i # j => p[i] # p[j]}

\* {denom: amount for denom in sample}
JoinDict(sample, amount) == [i \in 1..Len(sample) |-> <<sample[i], amount>>]

\* {denom: min(amount, self.pool.assets[denom]) for denom in _denoms}
ExitDict(a, sample, amount) ==
    [i \in 1..Len(sample) |->
        <<sample[i], IF amount < a[sample[i]] THEN amount ELSE a[sample[i]]>>]

\* if self.pool.assets[denom_out] < amount: amount = self.pool.assets[denom_out]
SwapAmount(a, denom_out, amount) ==
    IF a[denom_out] < amount THEN a[denom_out] ELSE amount

run_join(timestamp, amount, sample) ==
    join_pool(timestamp, JoinDict(sample, amount))

run_exit(timestamp, amount, sample) ==
    exit_pool(timestamp, ExitDict(assets, sample, amount))

\* the swap branch without the test against the balance of denom_out
run_swap_unchecked(timestamp, amount, denom, denom_out) ==
    /\ denom_out # denom
    /\ swap(denom, denom_out, timestamp, amount)

run_swap(timestamp, amount, denom, denom_out) ==
    /\ denom_out # denom
    /\ swap(denom, denom_out, timestamp, SwapAmount(assets, denom_out, amount))

RunJoinStep == \E t \in Timestamps, x \in DriverAmounts, s \in Samples(assets) :
                   run_join(t, x, s)
RunExitStep == \E t \in Timestamps, x \in DriverAmounts, s \in Samples(assets) :
                   run_exit(t, x, s)
RunSwapStep == \E t \in Timestamps, x \in DriverAmounts,
                  d \in DOMAIN assets, do \in DOMAIN assets : run_swap(t, x, d, do)

NextDriver ==
    RunJoinStep \/ RunExitStep \/ RunSwapStep \/ SetLimitersStep \/ AddDenomStep

SpecDriver == Init /\ [][NextDriver]_vars

\* ---------------------------------------------------- stand-alone limiter
\* One limiter object driven by a caller: update (a ChangeLimiter has it, a
\* StaticLimiter does not) and surpassed_limit, with timestamps that never
\* decrease.
MaxLTime == 3    \* largest timestamp passed to the stand-alone limiter

Offsets == {<<-1, 4>>, <<0, 1>>, <<1, 4>>}
UpperLimits == {<<1, 2>>, <<3, 5>>}
Values == {<<0, 1>>, <<1, 2>>, <<1, 1>>}
LTimestamps == (IF lcall.ts < 1 THEN 1 ELSE lcall.ts)..MaxLTime

update(timestamp, value) ==
    /\ lim.kind = "ChangeLimiter"
    /\ Len(lcall.fed) < MaxCalls
    /\ lim' = ChangeLimiter_update(lim, timestamp, value)
    /\ lcall' = [op |-> "update", ts |-> timestamp, value |-> value,
                 fed |-> Append(lcall.fed, <<timestamp, value>>),
                 ret |-> "None"]
    /\ UNCHANGED <<assets, limiters, last, calc, incentive_pool>>

surpassed_limit(timestamp, value) ==
    /\ lim' = lim
    /\ lcall' = [op |-> "surpassed_limit", ts |-> timestamp, value |-> value,
                 fed |-> lcall.fed,
                 ret |-> Limiter_surpassed_limit(lim, timestamp, value)]
    /\ UNCHANGED <<assets, limiters, last, calc, incentive_pool>>

InitLimiter ==
    /\ assets = Pool({"denom1", "denom2"}).assets
    /\ limiters = Pool({"denom1", "denom2"}).limiters
    /\ last = NoCall
    /\ lim \in {ChangeLimiter(o, n) : o \in Offsets, n \in 0..MaxWindow}
               \cup {StaticLimiter(u) : u \in UpperLimits}
    /\ lcall = NoLimiterCall
    /\ calc = NoCalc
    /\ incentive_pool = EmptyIncentivePool

UpdateStep == \E t \in LTimestamps, v \in Values : update(t, v)
QueryStep == \E t \in LTimestamps, v \in Values : surpassed_limit(t, v)

NextLimiter == UpdateStep \/ QueryStep

SpecLimiter == InitLimiter /\ [][NextLimiter]_vars

\* --------------------------------------------------- incentive calculator
MaxDim == 3         \* largest dimension of a vector passed to project_point
MaxK == 2           \* largest power factor k
MaxIncentive == 3   \* largest balance of one asset of the incentive pool

RECURSIVE GCD(_, _)
GCD(a, b) == IF b = 0 THEN a ELSE GCD(b, a % b)

\* the quotient in lowest terms
RatReduce(r) ==
    LET g == GCD(IF r[1] < 0 THEN -r[1] ELSE r[1], r[2])
    IN <<r[1] \div g, r[2] \div g>>

RatSub(a, b) == RatReduce(<<a[1] * b[2] - b[1] * a[2], a[2] * b[2]>>)
RatMul(a, b) == RatReduce(<<a[1] * b[1], a[2] * b[2]>>)
RatDivInt(a, n) == RatReduce(<<a[1], a[2] * n>>)

RECURSIVE RatPow(_, _)
RatPow(a, k) == IF k = 0 THEN <<1, 1>> ELSE RatMul(a, RatPow(a, k - 1))

\* np.dot(np.ones(n), m)
RECURSIVE Dot1(_, _)
Dot1(m, i) ==
    IF i > Len(m) THEN <<0, 1>>
    ELSE RatReduce(RatAdd(m[i], Dot1(m, i + 1)))

\* project_point without the division by n
project_point_no_div(m) ==
    LET n == Len(m)
        m_dot_1 == Dot1(m, 1)
        c == RatSub(m_dot_1, <<1, 1>>)
    IN [i \in 1..n |-> RatSub(m[i], c)]

project_point(m) ==
    LET n == Len(m)
        m_dot_1 == Dot1(m, 1)
        c == RatDivInt(RatSub(m_dot_1, <<1, 1>>), n)
    IN [i \in 1..n |-> RatSub(m[i], c)]

\* Fee = lambda * delta_b * (d'^k - d^k)
computeFee(amountDelta, dBefore, dAfter, lambda, k) ==
    RatMul(RatMul(lambda, <<amountDelta, 1>>),
           RatSub(RatPow(dAfter, k), RatPow(dBefore, k)))

Rank(a) == CHOOSE i \in 1..Len(IncentiveAssets) : IncentiveAssets[i] = a

\* the asset of S the distribution walks first: the largest balance, ties
\* by identifier
Largest(S, balances) ==
    CHOOSE a \in S :
        \A b \in S : \/ balances[a] > balances[b]
                     \/ balances[a] = balances[b] /\ Rank(a) <= Rank(b)

\* the asset of S with the smallest identifier
First(S, balances) == CHOOSE a \in S : \A b \in S : Rank(a) <= Rank(b)

\* the walk in identifier order, without the sort by balance
RECURSIVE distribute_unsorted(_, _, _, _)
distribute_unsorted(S, remainingDue, balances, payout) ==
    IF S = {} \/ remainingDue = 0
    THEN [payout |-> payout, balances |-> balances]
    ELSE LET a == First(S, balances)
             pay == IF remainingDue < balances[a] THEN remainingDue
                    ELSE balances[a]
         IN distribute_unsorted(S \ {a}, remainingDue - pay,
                                [balances EXCEPT ![a] = @ - pay],
                                [payout EXCEPT ![a] = pay])

\* pay min(remainingDue, balance) from each asset in descending order of
\* balance until remainingDue is 0 or the assets are exhausted
RECURSIVE distribute_loop(_, _, _, _)
distribute_loop(S, remainingDue, balances, payout) ==
    IF S = {} \/ remainingDue = 0
    THEN [payout |-> payout, balances |-> balances]
    ELSE LET a == Largest(S, balances)
             pay == IF remainingDue < balances[a] THEN remainingDue
                    ELSE balances[a]
         IN distribute_loop(S \ {a}, remainingDue - pay,
                            [balances EXCEPT ![a] = @ - pay],
                            [payout EXCEPT ![a] = pay])

distributeIncentive_unsorted(totalDue, balances) ==
    distribute_unsorted(DOMAIN balances, totalDue, balances,
                        [a \in DOMAIN balances |-> 0])

distributeIncentive(totalDue, balances) ==
    distribute_loop(DOMAIN balances, totalDue, balances,
                    [a \in DOMAIN balances |-> 0])

\* inputs of the calculator
Coords == {<<-1, 2>>, <<0, 1>>, <<1, 5>>, <<1, 2>>, <<1, 1>>}
Vectors == UNION {[1..n -> Coords] : n \in 1..MaxDim}
Distances == {<<0, 1>>, <<1, 4>>, <<1, 2>>, <<1, 1>>}
FeeScalers == {<<1, 2>>, <<1, 1>>}
PowerFactors == 0..MaxK
ExamplePool == [A |-> 30, B |-> 100, C |-> 10]
ExampleDue == 120
IncentivePools == [DOMAIN EmptyIncentivePool -> 0..MaxIncentive] \cup {ExamplePool}
Dues == 0..(Len(IncentiveAssets) * MaxIncentive + 1) \cup {ExampleDue}

ProjectPoint(m) ==
    /\ calc' = [op |-> "project_point", m |-> m, m_p |-> project_point(m)]
    /\ UNCHANGED <<assets, limiters, last, lim, lcall, incentive_pool>>

ComputeFee(amountDelta, dBefore, dAfter, lambda, k) ==
    /\ calc' = [op |-> "computeFee", amountDelta |-> amountDelta,
                dBefore |-> dBefore, dAfter |-> dAfter, lambda |-> lambda,
                k |-> k,
                fee |-> computeFee(amountDelta, dBefore, dAfter, lambda, k)]
    /\ UNCHANGED <<assets, limiters, last, lim, lcall, incentive_pool>>

DistributeIncentive(totalDue) ==
    LET r == distributeIncentive(totalDue, incentive_pool)
    IN /\ incentive_pool' = r.balances
       /\ calc' = [op |-> "distributeIncentive", totalDue |-> totalDue,
                   before |-> incentive_pool, payout |-> r.payout]
       /\ UNCHANGED <<assets, limiters, last, lim, lcall>>

InitCalc ==
    /\ assets = Pool({"denom1", "denom2"}).assets
    /\ limiters = Pool({"denom1", "denom2"}).limiters
    /\ last = NoCall
    /\ lim = LimCf
    /\ lcall = NoLimiterCall
    /\ calc = NoCalc
    /\ incentive_pool = EmptyIncentivePool

InitIncentive ==
    /\ assets = Pool({"denom1", "denom2"}).assets
    /\ limiters = Pool({"denom1", "denom2"}).limiters
    /\ last = NoCall
    /\ lim = LimCf
    /\ lcall = NoLimiterCall
    /\ calc = NoCalc
    /\ incentive_pool \in IncentivePools

ProjectStep == \E m \in Vectors : ProjectPoint(m)
FeeStep == \E x \in Amounts, dB \in Distances, dA \in Distances,
              l \in FeeScalers, k \in PowerFactors : ComputeFee(x, dB, dA, l, k)
DistributeStep == \E due \in Dues : DistributeIncentive(due)

SpecProject == InitCalc /\ [][ProjectStep]_vars
SpecFee == InitCalc /\ [][FeeStep]_vars
SpecIncentive == InitIncentive /\ [][DistributeStep]_vars

\* ------------------------------------------------------------------ claims
PoolOps == {"join_pool", "exit_pool", "swap"}

Registered(amount, a) == \A i \in 1..Len(amount) : amount[i][1] \in DOMAIN a

\* C1: a join_pool, exit_pool or swap that returns False leaves the whole
\* balance mapping as it was before the call, clamped exits included.
C1_RollbackRestores ==
    [][(last'.op \in PoolOps /\ last'.ret = "False") => assets' = assets]_vars

\* a rejected exit_pool that had clamped a requested amount
C1_Witness ==
    /\ last.op = "exit_pool"
    /\ last.ret = "False"
    /\ last.clamped

\* C2: a join_pool, exit_pool or swap that names an unregistered denom ends
\* in an error and leaves every balance unchanged.
C2_UnknownDenomAtomic ==
    [][/\ \A t \in Timestamps, am \in AmountDicts :
            (join_pool(t, am) \/ exit_pool(t, am)) /\ ~Registered(am, assets)
                => last'.ret = "KeyError" /\ assets' = assets
       /\ \A t \in Timestamps, di \in Denoms, do \in Denoms, x \in Amounts :
            swap(di, do, t, x) /\ ~({di, do} \subseteq DOMAIN assets)
                => last'.ret = "KeyError" /\ assets' = assets]_vars

\* the balances a call is meant to produce, stated without the loops
Requested(amount, d) == {amount[i][2] : i \in {j \in 1..Len(amount) : amount[j][1] = d}}

JoinExpected(a, amount) ==
    [d \in DOMAIN a |->
        IF Requested(amount, d) = {} THEN a[d]
        ELSE a[d] + (CHOOSE x \in Requested(amount, d) : TRUE)]

ExitExpected(a, amount) ==
    [d \in DOMAIN a |->
        IF Requested(amount, d) = {} THEN a[d]
        ELSE LET x == CHOOSE y \in Requested(amount, d) : TRUE
             IN IF x > a[d] THEN 0 ELSE a[d] - x]

SwapExpected(a, denom_in, denom_out, amount) ==
    [d \in DOMAIN a |->
        a[d] + (IF d = denom_in THEN amount ELSE 0)
             - (IF d = denom_out THEN amount ELSE 0)]

\* no limiter attached to any asset reports the limit as surpassed
NoneExceeds(a, lims, t) ==
    \A d \in DOMAIN a \cap DOMAIN lims : \A i \in 1..Len(lims[d]) :
        Limiter_surpassed_limit(lims[d][i], t, weight(a, d)) # "True"

Accepts(ret, expected, t) ==
    /\ ret = "True" <=> NoneExceeds(expected, limiters, t)
    /\ ret = "True" => assets' = expected

\* C3: on registered denoms join_pool, exit_pool and swap return True exactly
\* when no attached limiter is surpassed on the balances after the operation,
\* and then the balances are the pre-call balances with the operation applied.
C3_TrueIffNoLimit ==
    [][/\ \A t \in Timestamps, am \in AmountDicts :
            join_pool(t, am) /\ Registered(am, assets)
                => Accepts(last'.ret, JoinExpected(assets, am), t)
       /\ \A t \in Timestamps, am \in AmountDicts :
            exit_pool(t, am) /\ Registered(am, assets)
                => Accepts(last'.ret, ExitExpected(assets, am), t)
       /\ \A t \in Timestamps, di \in Denoms, do \in Denoms, x \in Amounts :
            swap(di, do, t, x) /\ {di, do} \subseteq DOMAIN assets
                => Accepts(last'.ret, SwapExpected(assets, di, do, x), t)]_vars

\* C4: after every committed join_pool, exit_pool or swap no balance is
\* negative.
C4_BalancesNonNegative ==
    (last.op \in PoolOps /\ last.ret = "True")
        => \A d \in DOMAIN assets : assets[d] >= 0

\* C5: an exit_pool that asks for more of a denom than its balance evaluates
\* the limits with that balance at 0, and the balance is not negative after
\* the call, accepted or rejected.
C5_ExitClamp ==
    [][\A t \in Timestamps, am \in AmountDicts :
            exit_pool(t, am) /\ Registered(am, assets)
                => \A i \in 1..Len(am) :
                       am[i][2] > assets[am[i][1]]
                           => /\ exit_apply(assets, am).assets[am[i][1]] = 0
                              /\ assets'[am[i][1]] >= 0]_vars

RECURSIVE RatSum(_, _)
RatSum(a, ds) ==
    IF ds = <<>> THEN <<0, 1>>
    ELSE RatAdd(weight(a, Head(ds)), RatSum(a, Tail(ds)))

\* C6: the weights sum to 1 when the total balance is positive, and every
\* weight is 0 when the total balance is 0.
C6_WeightsNormalised ==
    /\ total_assets(assets) > 0 => RatEq(RatSum(assets, denoms(assets)), <<1, 1>>)
    /\ total_assets(assets) = 0
          => \A d \in DOMAIN assets : RatEq(weight(assets, d), <<0, 1>>)

\* a committed operation left two assets with a positive balance
C6_Witness ==
    /\ last.op \in PoolOps
    /\ last.ret = "True"
    /\ Cardinality({d \in DOMAIN assets : assets[d] > 0}) >= 2

\* C7: the weight of every registered asset lies in [0, 1].
C7_WeightInUnitInterval ==
    \A d \in DOMAIN assets :
        RatLE(<<0, 1>>, weight(assets, d)) /\ RatLE(weight(assets, d), <<1, 1>>)

\* the newest k elements of s
Newest(s, k) == SubSeq(s, Len(s) - k + 1, Len(s))

\* C8: after any sequence of update calls the window holds at most
\* window_length samples, the newest min(window_length, calls) of them in
\* insertion order.
C8_WindowBounded ==
    /\ Len(lim.window) <= lim.window_length
    /\ lim.window = Newest(lcall.fed,
                           IF lim.window_length < Len(lcall.fed)
                           THEN lim.window_length ELSE Len(lcall.fed))

\* C9: a committed join_pool, exit_pool or swap records one sample
\* (timestamp, weight after the operation) in every attached ChangeLimiter;
\* a call that returns False records none.
C9_CommitRecordsSample ==
    [][\A t \in Timestamps :
          (\/ \E am \in AmountDicts : join_pool(t, am) \/ exit_pool(t, am)
           \/ \E di \in Denoms, do \in Denoms, x \in Amounts : swap(di, do, t, x))
          => \A d \in DOMAIN limiters : \A i \in 1..Len(limiters[d]) :
                limiters[d][i].kind = "ChangeLimiter"
                   => /\ last'.ret = "True"
                         => limiters'[d][i] =
                               ChangeLimiter_update(limiters[d][i], t,
                                                    weight(assets', d))
                      /\ last'.ret = "False"
                         => limiters'[d][i] = limiters[d][i]]_vars

\* C10: with exactly one sample (t0, v0) in the window, surpassed_limit at a
\* timestamp at or after t0 returns value > offset.
C10_SingleSample ==
    (/\ lcall.op = "surpassed_limit"
     /\ Len(lim.window) = 1
     /\ lcall.ts >= lim.window[1][1])
        => lcall.ret = (IF RatGT(lcall.value, lim.offset) THEN "True" ELSE "False")

\* C11: surpassed_limit on a ChangeLimiter whose window is empty returns
\* False for every timestamp, value and offset, and leaves the limiter as
\* it was.
C11_EmptyWindowNeverExceeds ==
    [][(/\ lcall'.op = "surpassed_limit"
        /\ lim.kind = "ChangeLimiter"
        /\ Len(lim.window) = 0)
          => lcall'.ret = "False" /\ lim' = lim]_vars

\* an empty window queried with a value above the offset
C11_Witness ==
    /\ lcall.op = "surpassed_limit"
    /\ lim.kind = "ChangeLimiter"
    /\ Len(lim.window) = 0
    /\ RatGT(lcall.value, lim.offset)
    /\ lcall.ret = "False"

\* C12: surpassed_limit on a StaticLimiter returns True exactly when the
\* value is strictly above upper_limit, whatever the timestamp, and leaves
\* the limiter as it was.
C12_StaticStrict ==
    [][(lcall'.op = "surpassed_limit" /\ lim.kind = "StaticLimiter")
          => /\ lcall'.ret = "True"
                  <=> lcall'.value[1] * lim.upper_limit[2]
                          > lim.upper_limit[1] * lcall'.value[2]
             /\ lcall'.ret \in {"True", "False"}
             /\ lim' = lim]_vars

\* a value equal to the limit, queried after the first timestamp
C12_Witness ==
    /\ lcall.op = "surpassed_limit"
    /\ lim.kind = "StaticLimiter"
    /\ RatEq(lcall.value, lim.upper_limit)
    /\ lcall.ts > 1
    /\ lcall.ret = "False"

\* C13: add_new_denom of a denom not yet in the pool registers it with
\* balance 0 and an empty limiter list and leaves every other balance and
\* limiter list as it was; join_pool, exit_pool and swap on registered denoms
\* keep returning True or False.
C13_AddAssetRegisters ==
    [][/\ \A d \in Denoms :
            (d \notin DOMAIN assets /\ add_new_denom(d))
                => /\ assets'[d] = 0
                   /\ d \in DOMAIN limiters'
                   /\ limiters'[d] = <<>>
                   /\ \A e \in DOMAIN assets : assets'[e] = assets[e]
                   /\ \A e \in DOMAIN limiters : limiters'[e] = limiters[e]
       /\ \A t \in Timestamps, am \in AmountDicts :
            (Registered(am, assets) /\ (join_pool(t, am) \/ exit_pool(t, am)))
                => last'.ret \in {"True", "False"}
       /\ \A t \in Timestamps, di \in Denoms, do \in Denoms, x \in Amounts :
            ({di, do} \subseteq DOMAIN assets /\ swap(di, do, t, x))
                => last'.ret \in {"True", "False"}]_vars

\* C14: add_new_denom of a denom already in the pool fails with
\* DuplicateAssetError and leaves every balance and limiter list as it was.
C14_DuplicateRejected ==
    [][\A d \in Denoms :
            (d \in DOMAIN assets /\ add_new_denom(d))
                => /\ last'.ret = "DuplicateAssetError"
                   /\ assets' = assets
                   /\ limiters' = limiters]_vars

\* C15: set_limiters on a registered denom makes the given list that denom's
\* limiter list and changes no balance and no other limiter list; on an
\* unregistered denom it raises and changes nothing, creating no entry.
C15_SetLimiters ==
    [][last'.op = "set_limiters"
          => \A d \in Denoms, ls \in LimiterLists :
            set_limiters(d, ls)
                => IF d \in DOMAIN assets
                   THEN /\ last'.ret = "None"
                        /\ DOMAIN limiters' = DOMAIN limiters \cup {d}
                        /\ limiters'[d] = ls
                        /\ \A e \in DOMAIN limiters \ {d} :
                               limiters'[e] = limiters[e]
                        /\ assets' = assets
                   ELSE /\ last'.ret = "ValueError"
                        /\ d \notin DOMAIN limiters'
                        /\ limiters' = limiters
                        /\ assets' = assets]_vars

\* a list of two limiters set on a denom that holds a balance
C15_Witness ==
    /\ last.op = "set_limiters"
    /\ last.ret = "None"
    /\ \E d \in DOMAIN limiters : limiters[d] = <<LimCf, LimS>> /\ assets[d] > 0

RECURSIVE Total(_, _)
Total(f, S) ==
    IF S = {} THEN 0
    ELSE LET a == CHOOSE x \in S : TRUE IN f[a] + Total(f, S \ {a})

\* C16: distributeIncentive pays every asset between 0 and its balance, the
\* payouts sum to min(totalDue, sum of balances), an asset is paid a non-zero
\* amount only if every asset with a strictly larger balance was drained,
\* every pool balance is decremented by its payout, and {A:30, B:100, C:10}
\* with 120 due pays {B:100, A:20, C:0}.
C16_DistributeIncentive ==
    calc.op = "distributeIncentive"
        => LET b == calc.before
               p == calc.payout
               due == calc.totalDue
               all == Total(b, DOMAIN b)
           IN /\ \A a \in DOMAIN b : 0 <= p[a] /\ p[a] <= b[a]
              /\ Total(p, DOMAIN p) = (IF due < all THEN due ELSE all)
              /\ \A a \in DOMAIN b :
                    p[a] > 0 => \A c \in DOMAIN b : b[c] > b[a] => p[c] = b[c]
              /\ \A a \in DOMAIN b : incentive_pool[a] = b[a] - p[a]
              /\ (b = ExamplePool /\ due = ExampleDue)
                    => p = [A |-> 20, B |-> 100, C |-> 0]

\* the example pool {A:30, B:100, C:10} drawn for 120
C16_Witness ==
    /\ calc.op = "distributeIncentive"
    /\ calc.before = ExamplePool
    /\ calc.totalDue = ExampleDue
    /\ incentive_pool = [A |-> 10, B |-> 0, C |-> 10]

\* C17: the components of project_point(m) sum to 1, project_point(m) is m
\* when the components of m sum to 1, projecting twice is projecting once,
\* every pairwise difference of components is kept, and [0.5, 0.5] maps to
\* itself and [0.2, 0.2] to [0.5, 0.5].
C17_ProjectOntoSimplex ==
    calc.op = "project_point"
        => LET v == calc.m
               r == calc.m_p
               n == Len(v)
           IN /\ RatEq(Dot1(r, 1), <<1, 1>>)
              /\ RatEq(Dot1(v, 1), <<1, 1>>)
                    => \A i \in 1..n : RatEq(r[i], v[i])
              /\ \A i \in 1..n : RatEq(project_point(r)[i], r[i])
              /\ \A i \in 1..n, j \in 1..n :
                    RatEq(RatSub(r[i], r[j]), RatSub(v[i], v[j]))
              /\ v = <<<<1, 2>>, <<1, 2>>>> => r = v
              /\ v = <<<<1, 5>>, <<1, 5>>>> => r = <<<<1, 2>>, <<1, 2>>>>

\* [0.2, 0.2] projected to [0.5, 0.5]
C17_Witness ==
    /\ calc.op = "project_point"
    /\ calc.m = <<<<1, 5>>, <<1, 5>>>>
    /\ calc.m_p = <<<<1, 2>>, <<1, 2>>>>

\* C18: for every power factor k >= 0 the fee is positive exactly when
\* dAfter > dBefore, zero exactly when they are equal and negative exactly
\* when dAfter < dBefore; with lambda = 1, k = 1, dBefore = 0, dAfter = 1 the
\* fee is the whole amount.
C18_FeeSign ==
    calc.op = "computeFee"
        => /\ RatGT(calc.fee, <<0, 1>>) <=> RatGT(calc.dAfter, calc.dBefore)
           /\ RatEq(calc.fee, <<0, 1>>) <=> RatEq(calc.dAfter, calc.dBefore)
           /\ RatGT(<<0, 1>>, calc.fee) <=> RatGT(calc.dBefore, calc.dAfter)
           /\ (/\ calc.lambda = <<1, 1>>
               /\ calc.k = 1
               /\ calc.dBefore = <<0, 1>>
               /\ calc.dAfter = <<1, 1>>)
                 => RatEq(calc.fee, <<calc.amountDelta, 1>>)

\* the sum over consecutive samples of (t_{i+1} - t_i) * v_i, from the
\* newest pair back to the oldest
RECURSIVE PairSum(_, _)
PairSum(w, i) ==
    IF i < 1 THEN <<0, 1>>
    ELSE RatAdd(PairSum(w, i - 1),
                <<(w[i + 1][1] - w[i][1]) * w[i][2][1], w[i][2][2]>>)

\* C19: on a non-empty window (t_0, v_0)..(t_m, v_m), surpassed_limit at a
\* timestamp >= t_m returns a boolean, True exactly when
\* value > S / (timestamp - t_0) + offset with S the sum of
\* (t_{i+1} - t_i) * v_i, and leaves the limiter as it was.
C19_TwmaFormula ==
    [][(/\ lcall'.op = "surpassed_limit"
        /\ lim.kind = "ChangeLimiter"
        /\ Len(lim.window) >= 1
        /\ lcall'.ts >= lim.window[Len(lim.window)][1])
          => /\ lcall'.ret \in {"True", "False"}
             /\ LET S == PairSum(lim.window, Len(lim.window) - 1)
                    span == lcall'.ts - lim.window[1][1]
                IN lcall'.ret = "True"
                      <=> RatGT(lcall'.value,
                                RatAdd(<<S[1], S[2] * span>>, lim.offset))
             /\ lim' = lim]_vars

Reverse(s) == [i \in 1..Len(s) |-> s[Len(s) + 1 - i]]

\* the orders in which the denoms of a can be visited
VisitOrders(a) ==
    {p \in [1..Cardinality(DOMAIN a) -> DOMAIN a] :
        \A i \in DOMAIN p, j \in DOMAIN p : i # j => p[i] # p[j]}

\* the limiter lists with those of the denoms in flip in their other order
\* (a list of the model holds at most two limiters)
Permuted(lims, flip) ==
    [d \in DOMAIN lims |-> IF d \in flip THEN Reverse(lims[d]) ELSE lims[d]]

\* the call returns what it returns under every order of the limiter lists
\* and every order of visiting the denoms
SameUnderEveryOrder(ret, a, t) ==
    \A p \in VisitOrders(a), flip \in SUBSET DOMAIN limiters :
        ret = Outcome(FALSE, SurpassedFrom(p, a, Permuted(limiters, flip), t))

\* C20: the outcome of join_pool, exit_pool and swap on registered denoms
\* does not depend on the order of the limiters within a limiter list nor on
\* the order in which the denoms are visited.
C20_OrderIndependent ==
    [][/\ \A t \in Timestamps, am \in AmountDicts :
            (Registered(am, assets) /\ join_pool(t, am))
                => SameUnderEveryOrder(last'.ret, join_apply(assets, am).assets, t)
       /\ \A t \in Timestamps, am \in AmountDicts :
            (Registered(am, assets) /\ exit_pool(t, am))
                => SameUnderEveryOrder(last'.ret, exit_apply(assets, am).assets, t)
       /\ \A t \in Timestamps, di \in Denoms, do \in Denoms, x \in Amounts :
            ({di, do} \subseteq DOMAIN assets /\ swap(di, do, t, x))
                => SameUnderEveryOrder(last'.ret,
                                       swap_apply(assets, di, do, x).assets, t)]_vars

\* every StaticLimiter attached to a denom has weight(denom) <= upper_limit
SatisfiesStatic(a, lims) ==
    \A d \in DOMAIN a \cap DOMAIN lims : \A i \in 1..Len(lims[d]) :
        lims[d][i].kind = "StaticLimiter"
            => RatLE(weight(a, d), lims[d][i].upper_limit)

\* C21: a pool that satisfies all its StaticLimiters still satisfies them
\* after every join_pool, exit_pool and swap call, whatever its outcome.
C21_StaticLimitsKept ==
    [][(last'.op \in PoolOps /\ SatisfiesStatic(assets, limiters))
          => SatisfiesStatic(assets', limiters')]_vars

\* some limiter is attached and every attached limiter is a ChangeLimiter
\* with an empty window
ChangeOnly(lims) ==
    /\ \E d \in DOMAIN lims : Len(lims[d]) > 0
    /\ \A d \in DOMAIN lims : \A i \in 1..Len(lims[d]) :
          lims[d][i].kind = "ChangeLimiter" /\ lims[d][i].window = <<>>

\* C22: join_pool, exit_pool and swap leave every empty ChangeLimiter window
\* empty, and on a pool whose only limiters are such ChangeLimiters every
\* call on registered denoms returns True.
C22_WindowsStayEmpty ==
    [][last'.op \in PoolOps
          => /\ \A d \in DOMAIN limiters : \A i \in 1..Len(limiters[d]) :
                   (/\ limiters[d][i].kind = "ChangeLimiter"
                    /\ limiters[d][i].window = <<>>)
                       => limiters'[d][i].window = <<>>
             /\ ChangeOnly(limiters)
                   => /\ \A t \in Timestamps, am \in AmountDicts :
                           (Registered(am, assets)
                              /\ (join_pool(t, am) \/ exit_pool(t, am)))
                               => last'.ret = "True"
                      /\ \A t \in Timestamps, di \in Denoms, do \in Denoms,
                            x \in Amounts :
                           ({di, do} \subseteq DOMAIN assets /\ swap(di, do, t, x))
                               => last'.ret = "True"]_vars

\* C23: a swap on registered denoms, whatever its outcome, leaves the sum of
\* all balances and every balance other than those of denom_in and denom_out
\* as they were, and a swap with denom_in = denom_out changes no balance.
C23_SwapKeepsTotal ==
    \A t \in Timestamps, di \in DOMAIN assets, do \in DOMAIN assets,
       x \in Amounts :
        LET r == swap_result(assets, limiters, di, do, t, x)
        IN /\ total_assets(r.assets) = total_assets(assets)
           /\ \A e \in DOMAIN assets \ {di, do} : r.assets[e] = assets[e]
           /\ di = do => r.assets = assets

\* a rejected swap on a pool that holds a balance
C23_Witness ==
    /\ last.op = "swap"
    /\ last.ret = "False"
    /\ total_assets(assets) > 0

NonNegative(a) == \A d \in DOMAIN a : a[d] >= 0

\* C24: under the driver's calls (amounts >= 0, a swap amount at most the
\* balance of denom_out) every balance is >= 0 in every reachable state and
\* in the balances on which each call evaluates the limits.
C24_DriverNonNegative ==
    /\ NonNegative(assets)
    /\ \A t \in Timestamps, x \in DriverAmounts, s \in Samples(assets) :
          /\ NonNegative(join_apply(assets, JoinDict(s, x)).assets)
          /\ NonNegative(exit_apply(assets, ExitDict(assets, s, x)).assets)
    /\ \A t \in Timestamps, x \in DriverAmounts, d \in DOMAIN assets :
          \A do \in DOMAIN assets \ {d} :
          NonNegative(swap_result(assets, limiters, d, do, t,
                                  SwapAmount(assets, do, x)).tentative)

\* an accepted swap that emptied one denom of a pool holding a balance
C24_Witness ==
    /\ last.op = "swap"
    /\ last.ret = "True"
    /\ \E d \in DOMAIN assets : assets[d] = 0
    /\ total_assets(assets) > 0

====
